---- MODULE Spec2Model ----
(***************************************************************************)
(* State-machine model of seals.diagnostics.base_envs: the generic        *)
(* reset/step/seed loop of ResettableEnv and its tabular instantiation     *)
(* TabularModelEnv.                                                        *)
(*                                                                         *)
(* Encoding of Python values:                                              *)
(*   - an attribute that may be None is <<>> (None) or <<v>> (the value v) *)
(*   - an ndarray is [shape |-> <<d1,..>>, data |-> nested tuples]         *)
(*   - a probability p is the integer p * Unit, so a distribution is a     *)
(*     tuple of non-negative integers summing to Unit                      *)
(*   - a float horizon is [finite |-> BOOLEAN, val |-> Nat]; np.inf is     *)
(*     the record with finite = FALSE                                      *)
(*   - a call either returns [kind |-> "return", ...] or raises            *)
(*     [kind |-> "raise", exc |-> ..., msg |-> ...]                        *)
(***************************************************************************)
EXTENDS Integers, Sequences, FiniteSets, TLC

(* ------------------------------ bounds -------------------------------- *)

\* cap on n_actions_taken within one episode
MaxSteps == 4
\* cap on the number of samples drawn from one RandomState
MaxDraws == 5
\* cap on the number of draws from numpy's global generator
MaxGlobalDraws == 3
\* the same two caps where two instances and their second runs are followed
RunSteps == 2
RunDraws == 3
\* resolution of probabilities: the probability 1.0 is the integer Unit
Unit == 2

\* the environment instances
Envs == {1, 2}
\* seeds passed explicitly to seed(s)
SeedArgs == {0, 1}
\* the states of numpy's global generator at import time
GlobalSeeds == {1}
\* the states of numpy's global generator at import time in a second run
RerunGlobalSeeds == {2, 3}
\* actions passed to step: n_actions = 2 in every table below, so this
\* covers a < -n_actions, -n_actions <= a < 0, valid a, and a >= n_actions
Actions == -3 .. 2

VARIABLES
    transition_matrix,   \* constructor argument, shape (nS, nA, nS)
    reward_matrix,       \* constructor argument, rank 1, 2 or 3
    horizon,             \* constructor argument
    initial_state_dist,  \* self.initial_state_dist (after the None default)
    dist_given,          \* history: the constructor was given initial_state_dist
    sampling_policy,     \* what util.sample_distribution does with a vector that
                         \* is not a distribution: "fail" or "renormalize"
    cur_state,           \* cur_state[e]: self.cur_state of instance e
    n_actions_taken,     \* n_actions_taken[e]: self._n_actions_taken
    rand_state,          \* rand_state[e]: self.rand_state, [seed, pos]
    np_random,           \* numpy's process-wide generator, [seed, pos]
    call,                \* the most recent call: [env, op, args]
    ret,                 \* what the most recent call returned or raised
    ever_reset,          \* history: reset has been called on e
    episode_steps,       \* history: successful steps of e since its last reset
    episode_done,        \* history: a step of e since its last reset returned done
    twin                 \* history: a second run that repeats the calls of e
                         \* since its last seed(s) on a fresh instance

vars == <<transition_matrix, reward_matrix, horizon, initial_state_dist,
          dist_given, sampling_policy,
          cur_state, n_actions_taken, rand_state, np_random, call, ret,
          ever_reset, episode_steps, episode_done, twin>>

tables == <<transition_matrix, reward_matrix, horizon, initial_state_dist,
            dist_given, sampling_policy>>

(* --------------------------- Python values ---------------------------- *)

None == <<>>
Some(v) == <<v>>
Val(o) == o[1]

np_inf == [finite |-> FALSE, val |-> 0]
Finite(h) == [finite |-> TRUE, val |-> h]

Raise(exc, msg) == [kind |-> "raise", exc |-> exc, msg |-> msg]

NeedResetMsg == "Need to call reset() before first step()"

RECURSIVE Sum(_)
Sum(p) == IF p = <<>> THEN 0 ELSE Head(p) + Sum(Tail(p))

\* numpy basic indexing arr[idx] with a tuple of integers: each index i of
\* an axis of length d must satisfy -d <= i < d, a negative i counts from
\* the end; anything else raises IndexError.
RECURSIVE GetItemData(_, _, _)
GetItemData(data, shape, idx) ==
    IF idx = <<>> THEN [ok |-> TRUE, val |-> data]
    ELSE LET d == Head(shape)
             i == Head(idx)
             j == IF i < 0 THEN i + d ELSE i
         IN  IF j < 0 \/ j >= d
             THEN [ok |-> FALSE, val |-> <<>>]
             ELSE GetItemData(data[j + 1], Tail(shape), Tail(idx))

GetItem(arr, idx) == GetItemData(arr.data, arr.shape, idx)

\* the first k elements of a tuple: t[:k]
Truncate(t, k) == SubSeq(t, 1, IF k < Len(t) THEN k ELSE Len(t))

(* ------------------------- random generators -------------------------- *)

\* np.random.RandomState(seed): a generator whose output sequence is a
\* function of the seed alone.
RandomState(seed) == [seed |-> seed, pos |-> 0]

\* the next uniform sample of a generator, as an integer in 0 .. Unit-1
random_sample(rs) ==
    (((rs.seed % 5) + 1) * (rs.pos + 1) + (rs.seed \div 3)) % Unit

advance(rs) == [rs EXCEPT !.pos = @ + 1]

\* the largest value np.random.randint(0, 1 << 31) can return
RandintMax == 2147483647

\* np.random.randint(0, 1 << 31) on the global generator
randint(g) == (g.seed * 7919 + (g.pos + 1) * 104729) % RandintMax

(* ------------------------------- util --------------------------------- *)

\* util.one_hot_encoding(pos, size)
one_hot_encoding(pos, size) ==
    [i \in 1 .. size |-> IF i = pos + 1 THEN Unit ELSE 0]

\* index selected by the uniform sample u under weights p: the least i
\* whose cumulative weight exceeds u (0-based)
RECURSIVE Searchsorted(_, _, _)
Searchsorted(p, u, i) ==
    IF i >= Len(p) THEN Len(p) - 1
    ELSE IF Sum(SubSeq(p, 1, i)) > u THEN i - 1
    ELSE Searchsorted(p, u, i + 1)

\* p is a probability vector: non-negative entries that sum to 1
IsDistribution(p) == Sum(p) = Unit /\ \A i \in 1 .. Len(p) : p[i] >= 0

\* util.sample_distribution(p, random): one categorical draw from p that
\* consumes one sample of the generator.  On a vector that is not a
\* distribution it either fails with a domain error before drawing or
\* draws with the weights renormalized, as sampling_policy says.
sample_distribution(p, random) ==
    IF IsDistribution(p) \/ sampling_policy = "renormalize"
    THEN [ok |-> TRUE,
          val |-> Searchsorted(p, random_sample(random) % Sum(p), 1),
          random |-> advance(random)]
    ELSE [ok |-> FALSE, val |-> 0, random |-> random]

(* ------------------------------ tables -------------------------------- *)

ndarray(shape, data) == [shape |-> shape, data |-> data]

\* deterministic dynamics: T[0,0]=[1,0], T[0,1]=[0,1], T[1,0]=[0,1], T[1,1]=[1,0]
T_det == ndarray(<<2, 2, 2>>,
                 << << <<Unit, 0>>, <<0, Unit>> >>,
                    << <<0, Unit>>, <<Unit, 0>> >> >>)

\* stochastic dynamics
T_sto == ndarray(<<2, 2, 2>>,
                 << << <<1, Unit - 1>>, <<0, Unit>> >>,
                    << <<Unit - 1, 1>>, <<Unit, 0>> >> >>)

\* rewards are floats; every entry below is a whole number, written as an integer
R_rank1 == ndarray(<<2>>, <<0, 1>>)
R_rank2 == ndarray(<<2, 2>>, << <<10, 11>>, <<20, 21>> >>)
R_rank3 == ndarray(<<2, 2, 2>>,
                   << << <<100, 101>>, <<110, 111>> >>,
                      << <<200, 201>>, <<210, 211>> >> >>)

Args(T, R, h, isd) ==
    [transition_matrix |-> T, reward_matrix |-> R, horizon |-> h,
     initial_state_dist |-> isd]

\* the 2-state, 2-action scenario with horizon 2
Scenario == Args(T_det, R_rank1, Finite(2), Some(<<Unit, 0>>))

\* constructor arguments the instances are built from
Configs ==
    << Scenario,
       Args(T_sto, R_rank2, np_inf, Some(<<1, Unit - 1>>)),
       Args(T_sto, R_rank3, Finite(1), None),
       Args(T_det, R_rank2, Finite(0), Some(<<0, Unit>>)),
       Args(T_sto, R_rank1, Finite(3), Some(<<Unit - 1, 1>>)) >>

\* a transition matrix whose row [0,0] sums to less than 1
T_short == ndarray(<<2, 2, 2>>,
                   << << <<1, 0>>, <<0, Unit>> >>,
                      << <<0, Unit>>, <<Unit, 0>> >> >>)

\* a reward matrix with a single action column, one less than n_actions
R_narrow == ndarray(<<2, 1>>, << <<10>>, <<20>> >>)

\* a reward matrix of rank 4
R_rank4 == ndarray(<<2, 2, 2, 1>>,
                   << << << <<100>>, <<101>> >>, << <<110>>, <<111>> >> >>,
                      << << <<200>>, <<201>> >>, << <<210>>, <<211>> >> >> >>)

\* constructor arguments that are not well-formed tables; the constructor
\* checks none of its arguments, so it builds an instance from each
BadConfigs ==
    << Args(T_short, R_rank1, Finite(2), Some(<<Unit, 0>>)),
       Args(T_det, R_rank1, Finite(2), Some(<<1, 0>>)),
       Args(T_sto, R_narrow, Finite(2), Some(<<Unit, 0>>)),
       Args(T_det, R_rank4, Finite(2), None) >>

AllConfigs == Configs \o BadConfigs

\* the constructor arguments whose sampling depends on the generator
StochasticConfigs == { i \in 1 .. Len(Configs) : Configs[i].transition_matrix = T_sto }

(* --------------------------- ResettableEnv ---------------------------- *)

\* the attributes of one instance that its methods read and write
Self(e) == [cur_state |-> cur_state[e],
            n_actions_taken |-> n_actions_taken[e],
            rand_state |-> rand_state[e]]

\* a seed that draws from the global generator whether or not a seed is given
seed_always_drawn(s, g) ==
    [rand_state |-> RandomState(randint(g)),
     np_random |-> advance(g),
     ret |-> [kind |-> "return", seeds |-> <<randint(g)>>]]

\* a seed that, without an argument, returns one drawn seed and initializes
\* the generator from another
seed_drawn_twice(s, g) ==
    LET drawn == IF s = None THEN randint(g) ELSE Val(s)
        used == IF s = None THEN randint(advance(g)) ELSE Val(s)
    IN  [rand_state |-> RandomState(used),
         np_random |-> IF s = None THEN advance(g) ELSE g,
         ret |-> [kind |-> "return", seeds |-> <<drawn>>]]

\* seed(seed): returns the new generator, the global generator and the result
seed(s, g) ==
    LET drawn == IF s = None THEN randint(g) ELSE Val(s)
    IN  [rand_state |-> RandomState(drawn),
         np_random |-> IF s = None THEN advance(g) ELSE g,
         ret |-> [kind |-> "return", seeds |-> <<drawn>>]]

\* a seed call that also restarts the episode
seed_call_restarts(self, s, g) ==
    [self |-> [cur_state |-> self.cur_state,
               n_actions_taken |-> IF self.n_actions_taken = None
                                   THEN None ELSE Some(0),
               rand_state |-> seed(s, g).rand_state],
     np_random |-> seed(s, g).np_random,
     ret |-> seed(s, g).ret]

\* self.seed(seed): the only attribute assigned is self.rand_state
seed_call(self, s, g) ==
    [self |-> [self EXCEPT !.rand_state = seed(s, g).rand_state],
     np_random |-> seed(s, g).np_random,
     ret |-> seed(s, g).ret]

\* a constructor that starts the first episode by itself
ResettableEnv_init_started(g) ==
    [self |-> [cur_state |-> Some(0),
               n_actions_taken |-> Some(0),
               rand_state |-> seed(None, g).rand_state],
     np_random |-> seed(None, g).np_random]

\* ResettableEnv.__init__: the attributes of a new instance
ResettableEnv_init(g) ==
    [self |-> [cur_state |-> None,
               n_actions_taken |-> None,
               rand_state |-> seed(None, g).rand_state],
     np_random |-> seed(None, g).np_random]

obs_from_state(state) == state

(* -------------------------- TabularModelEnv --------------------------- *)

\* a default initial distribution that selects the last state
TabularModelEnv_init_dist_last(T, isd) ==
    IF isd = None THEN one_hot_encoding(T.shape[1] - 1, T.shape[1]) ELSE Val(isd)

\* TabularModelEnv.__init__: self.initial_state_dist
TabularModelEnv_init_dist(T, isd) ==
    IF isd = None THEN one_hot_encoding(0, T.shape[1]) ELSE Val(isd)

initial_state(isd, random) == sample_distribution(isd, random)

\* a transition that indexes the matrix as transition_matrix[action, state]
transition_swapped(T, state, action, random) ==
    LET row == GetItem(T, <<action, state>>)
    IN  IF ~row.ok
        THEN [ok |-> FALSE, exc |-> "IndexError", val |-> 0, random |-> random]
        ELSE LET drawn == sample_distribution(row.val, random)
             IN  [ok |-> drawn.ok, exc |-> "ValueError",
                  val |-> drawn.val, random |-> drawn.random]

\* transition: indexing transition_matrix[state, action] may raise
\* IndexError, sampling from the row may raise ValueError
transition(T, state, action, random) ==
    LET row == GetItem(T, <<state, action>>)
    IN  IF ~row.ok
        THEN [ok |-> FALSE, exc |-> "IndexError", val |-> 0, random |-> random]
        ELSE LET drawn == sample_distribution(row.val, random)
             IN  [ok |-> drawn.ok, exc |-> "ValueError",
                  val |-> drawn.val, random |-> drawn.random]

\* a reward that builds its index tuple from the new state first
reward_by_new_state(R, state, action, new_state) ==
    LET inputs == Truncate(<<new_state, action, state>>, Len(R.shape))
    IN  GetItem(R, inputs)

\* a reward that builds its index tuple as (state, new_state, action)
reward_swapped(R, state, action, new_state) ==
    LET inputs == Truncate(<<state, new_state, action>>, Len(R.shape))
    IN  GetItem(R, inputs)

reward(R, state, action, new_state) ==
    LET inputs == Truncate(<<state, action, new_state>>, Len(R.shape))
    IN  GetItem(R, inputs)

\* a termination test that is strict
terminal_strict(h, state, n) == h.finite /\ n > h.val

\* a termination test that holds at the horizon only
terminal_only_at_horizon(h, state, n) == h.finite /\ n = h.val

terminal(h, state, n) == h.finite /\ n >= h.val

\* a reset that zeroes the counter only on the first reset
reset_keeps_count(isd, self) ==
    LET s0 == initial_state(isd, self.rand_state)
    IN  IF ~s0.ok
        THEN [self |-> self, ret |-> Raise("ValueError", "initial_state_dist")]
        ELSE [self |-> [cur_state |-> Some(s0.val),
                        n_actions_taken |-> IF self.n_actions_taken = None
                                            THEN Some(0) ELSE self.n_actions_taken,
                        rand_state |-> s0.random],
              ret |-> [kind |-> "return", obs |-> obs_from_state(s0.val)]]

\* a reset that assigns cur_state and leaves the counter as it was
reset_without_counter(isd, self) ==
    LET s0 == initial_state(isd, self.rand_state)
    IN  IF ~s0.ok
        THEN [self |-> self, ret |-> Raise("ValueError", "initial_state_dist")]
        ELSE [self |-> [cur_state |-> Some(s0.val),
                        n_actions_taken |-> self.n_actions_taken,
                        rand_state |-> s0.random],
              ret |-> [kind |-> "return", obs |-> obs_from_state(s0.val)]]

reset(isd, self) ==
    LET s0 == initial_state(isd, self.rand_state)
    IN  IF ~s0.ok
        THEN [self |-> self, ret |-> Raise("ValueError", "initial_state_dist")]
        ELSE [self |-> [cur_state |-> Some(s0.val),
                        n_actions_taken |-> Some(0),
                        rand_state |-> s0.random],
              ret |-> [kind |-> "return", obs |-> obs_from_state(s0.val)]]

\* a step that tests termination after incrementing the counter
step_done_after_increment(T, R, h, self, action) ==
    IF self.cur_state = None \/ self.n_actions_taken = None
    THEN [self |-> self, ret |-> Raise("ValueError", NeedResetMsg)]
    ELSE
      LET old_state == Val(self.cur_state)
          t == transition(T, old_state, action, self.rand_state)
      IN  IF ~t.ok
          THEN [self |-> self, ret |-> Raise(t.exc, "transition_matrix")]
          ELSE
            LET new_state == t.val
                obs == obs_from_state(new_state)
                rew == reward(R, old_state, action, new_state)
                done == terminal(h, new_state, Val(self.n_actions_taken) + 1)
            IN  IF ~rew.ok
                THEN [self |-> [self EXCEPT !.cur_state = Some(new_state),
                                            !.rand_state = t.random],
                      ret |-> Raise("IndexError", "reward_matrix")]
                ELSE [self |-> [cur_state |-> Some(new_state),
                                n_actions_taken |-> Some(Val(self.n_actions_taken) + 1),
                                rand_state |-> t.random],
                      ret |-> [kind |-> "return", obs |-> obs, rew |-> rew.val,
                               done |-> done,
                               info |-> [old_state |-> old_state,
                                         new_state |-> new_state]]]

\* a step whose info reports the new state as old_state
step_old_state_late(T, R, h, self, action) ==
    IF self.cur_state = None \/ self.n_actions_taken = None
    THEN [self |-> self, ret |-> Raise("ValueError", NeedResetMsg)]
    ELSE
      LET old_state == Val(self.cur_state)
          t == transition(T, old_state, action, self.rand_state)
      IN  IF ~t.ok
          THEN [self |-> self, ret |-> Raise(t.exc, "transition_matrix")]
          ELSE
            LET new_state == t.val
                obs == obs_from_state(new_state)
                rew == reward(R, old_state, action, new_state)
                done == terminal(h, new_state, Val(self.n_actions_taken))
            IN  IF ~rew.ok
                THEN [self |-> [self EXCEPT !.cur_state = Some(new_state),
                                            !.rand_state = t.random],
                      ret |-> Raise("IndexError", "reward_matrix")]
                ELSE [self |-> [cur_state |-> Some(new_state),
                                n_actions_taken |-> Some(Val(self.n_actions_taken) + 1),
                                rand_state |-> t.random],
                      ret |-> [kind |-> "return", obs |-> obs, rew |-> rew.val,
                               done |-> done,
                               info |-> [old_state |-> new_state,
                                         new_state |-> new_state]]]

step(T, R, h, self, action) ==
    IF self.cur_state = None \/ self.n_actions_taken = None
    THEN [self |-> self, ret |-> Raise("ValueError", NeedResetMsg)]
    ELSE
      LET old_state == Val(self.cur_state)
          t == transition(T, old_state, action, self.rand_state)
      IN  IF ~t.ok
          THEN [self |-> self, ret |-> Raise(t.exc, "transition_matrix")]
          ELSE
            LET new_state == t.val
                obs == obs_from_state(new_state)
                rew == reward(R, old_state, action, new_state)
                done == terminal(h, new_state, Val(self.n_actions_taken))
            IN  IF ~rew.ok
                THEN [self |-> [self EXCEPT !.cur_state = Some(new_state),
                                            !.rand_state = t.random],
                      ret |-> Raise("IndexError", "reward_matrix")]
                ELSE [self |-> [cur_state |-> Some(new_state),
                                n_actions_taken |-> Some(Val(self.n_actions_taken) + 1),
                                rand_state |-> t.random],
                      ret |-> [kind |-> "return", obs |-> obs, rew |-> rew.val,
                               done |-> done,
                               info |-> [old_state |-> old_state,
                                         new_state |-> new_state]]]

(* ------------------------------ the model ----------------------------- *)

\* the instances that are driven after construction
Driven == {1}

\* the attributes of an instance constructed in a process whose global
\* generator starts from g
Fresh(g) == ResettableEnv_init(RandomState(g))

\* no second run is followed
NoTwin == [active |-> FALSE, started |-> FALSE, same |-> TRUE, self |-> Fresh(1).self]

\* what a caller observes of a result: observation, reward and done flag
Observable(r) ==
    IF r.kind = "raise" THEN r
    ELSE IF "rew" \in DOMAIN r THEN [obs |-> r.obs, rew |-> r.rew, done |-> r.done]
    ELSE [obs |-> r.obs]

\* Both instances are constructed, one after the other, from the same
\* arguments; each construction draws its seed from the global generator.
InitFrom(ids, policies) ==
    \E i \in ids, g \in GlobalSeeds, policy \in policies :
        LET c == AllConfigs[i]
            e1 == ResettableEnv_init(RandomState(g))
            e2 == ResettableEnv_init(e1.np_random)
            new == [e \in Envs |-> IF e = 1 THEN e1.self ELSE e2.self]
        IN  /\ transition_matrix = c.transition_matrix
            /\ reward_matrix = c.reward_matrix
            /\ horizon = c.horizon
            /\ initial_state_dist =
                   TabularModelEnv_init_dist(c.transition_matrix, c.initial_state_dist)
            /\ dist_given = (c.initial_state_dist # None)
            /\ sampling_policy = policy
            /\ cur_state = [e \in Envs |-> new[e].cur_state]
            /\ n_actions_taken = [e \in Envs |-> new[e].n_actions_taken]
            /\ rand_state = [e \in Envs |-> new[e].rand_state]
            /\ np_random = e2.np_random
            /\ call = [env |-> 2, op |-> "__init__", args |-> <<>>]
            /\ ret = [kind |-> "return"]
            /\ ever_reset = [e \in Envs |-> FALSE]
            /\ episode_steps = [e \in Envs |-> 0]
            /\ episode_done = [e \in Envs |-> FALSE]
            /\ twin = [e \in Envs |-> NoTwin]

Init == InitFrom(1 .. Len(Configs), {"fail"})

SetSelf(e, self) ==
    /\ cur_state' = [cur_state EXCEPT ![e] = self.cur_state]
    /\ n_actions_taken' = [n_actions_taken EXCEPT ![e] = self.n_actions_taken]
    /\ rand_state' = [rand_state EXCEPT ![e] = self.rand_state]

StepCap(rec) == IF rec THEN RunSteps ELSE MaxSteps
DrawCap(rec) == IF rec THEN RunDraws ELSE MaxDraws

\* env.seed(s) with an integer s.  When the second run is followed, it
\* constructs a fresh instance in its own process and calls seed(s) on it.
SeedOp(e, s, rec) ==
    \E r \in {seed_call(Self(e), Some(s), np_random)} :
        /\ SetSelf(e, r.self)
        /\ np_random' = r.np_random
        /\ call' = [env |-> e, op |-> "seed", args |-> <<s>>]
        /\ ret' = r.ret
        /\ IF rec
           THEN \E g \in RerunGlobalSeeds :
                  LET f == Fresh(g)
                      fs == seed(Some(s), f.np_random)
                  IN  twin' = [twin EXCEPT ![e] =
                                 [active |-> TRUE, started |-> FALSE, same |-> TRUE,
                                  self |-> [f.self EXCEPT !.rand_state = fs.rand_state]]]
           ELSE twin' = twin
        /\ UNCHANGED <<tables, ever_reset, episode_steps, episode_done>>

\* env.seed() without an argument
SeedNoneOp(e, rec) ==
    \E r \in {seed_call(Self(e), None, np_random)} :
        /\ np_random.pos < MaxGlobalDraws
        /\ SetSelf(e, r.self)
        /\ np_random' = r.np_random
        /\ call' = [env |-> e, op |-> "seed", args |-> <<>>]
        /\ ret' = r.ret
        /\ twin' = IF rec THEN [twin EXCEPT ![e] = NoTwin] ELSE twin
        /\ UNCHANGED <<tables, ever_reset, episode_steps, episode_done>>

\* env.reset(); the second run, when followed, calls reset() too
ResetOp(e, rec) ==
    \E r \in {reset(initial_state_dist, Self(e))},
       t \in {reset(initial_state_dist, twin[e].self)} :
        /\ rand_state[e].pos < DrawCap(rec)
        /\ SetSelf(e, r.self)
        /\ call' = [env |-> e, op |-> "reset", args |-> <<>>]
        /\ ret' = r.ret
        /\ ever_reset' = IF r.ret.kind = "return"
                         THEN [ever_reset EXCEPT ![e] = TRUE]
                         ELSE ever_reset
        /\ episode_steps' = IF r.ret.kind = "return"
                            THEN [episode_steps EXCEPT ![e] = 0]
                            ELSE episode_steps
        /\ episode_done' = IF r.ret.kind = "return"
                           THEN [episode_done EXCEPT ![e] = FALSE]
                           ELSE episode_done
        /\ twin' = IF rec /\ twin[e].active
                   THEN [twin EXCEPT ![e] =
                           [active |-> TRUE, started |-> TRUE,
                            same |-> twin[e].same /\ Observable(t.ret) = Observable(r.ret),
                            self |-> t.self]]
                   ELSE twin
        /\ UNCHANGED <<tables, np_random>>

\* env.step(a); the second run, when followed and past its reset, calls
\* step(a) too; a run that steps before its reset is not followed
StepOp(e, a, rec) ==
    \E r \in {step(transition_matrix, reward_matrix, horizon, Self(e), a)},
       t \in {step(transition_matrix, reward_matrix, horizon, twin[e].self, a)} :
        /\ n_actions_taken[e] # None =>
              /\ Val(n_actions_taken[e]) < StepCap(rec)
              /\ rand_state[e].pos < DrawCap(rec)
        /\ SetSelf(e, r.self)
        /\ call' = [env |-> e, op |-> "step", args |-> <<a>>]
        /\ ret' = r.ret
        /\ episode_steps' = IF r.ret.kind = "return"
                            THEN [episode_steps EXCEPT ![e] = @ + 1]
                            ELSE episode_steps
        /\ episode_done' = IF r.ret.kind = "return"
                           THEN [episode_done EXCEPT ![e] = @ \/ r.ret.done]
                           ELSE episode_done
        /\ twin' = IF rec /\ twin[e].active
                   THEN IF twin[e].started
                        THEN [twin EXCEPT ![e] =
                                [active |-> TRUE, started |-> TRUE,
                                 same |-> twin[e].same
                                          /\ Observable(t.ret) = Observable(r.ret),
                                 self |-> t.self]]
                        ELSE [twin EXCEPT ![e] = NoTwin]
                   ELSE twin
        /\ UNCHANGED <<tables, np_random, ever_reset>>

\* what a call that changes no attribute leaves alone
pure_frame == <<tables, cur_state, n_actions_taken, rand_state, np_random,
                ever_reset, episode_steps, episode_done, twin>>

\* env.reward(s, a, s2)
RewardOp(e, s, a, s2) ==
    LET r == reward(reward_matrix, s, a, s2)
    IN  /\ call' = [env |-> e, op |-> "reward", args |-> <<s, a, s2>>]
        /\ ret' = IF r.ok THEN [kind |-> "return", rew |-> r.val]
                          ELSE Raise("IndexError", "reward_matrix")
        /\ UNCHANGED pure_frame

\* env.terminal(s, n)
TerminalOp(e, s, n) ==
    /\ call' = [env |-> e, op |-> "terminal", args |-> <<s, n>>]
    /\ ret' = [kind |-> "return", done |-> terminal(horizon, s, n)]
    /\ UNCHANGED pure_frame

\* env.obs_from_state(s)
ObsFromStateOp(e, s) ==
    /\ call' = [env |-> e, op |-> "obs_from_state", args |-> <<s>>]
    /\ ret' = [kind |-> "return", obs |-> obs_from_state(s)]
    /\ UNCHANGED pure_frame

States == 0 .. 1

Next ==
    \E e \in Driven :
        \/ \E s \in SeedArgs : SeedOp(e, s, FALSE)
        \/ SeedNoneOp(e, FALSE)
        \/ ResetOp(e, FALSE)
        \/ \E a \in Actions : StepOp(e, a, FALSE)
        \/ \E s \in States, a \in 0 .. 1, s2 \in States : RewardOp(e, s, a, s2)
        \/ \E s \in States, n \in 0 .. MaxSteps : TerminalOp(e, s, n)
        \/ \E s \in States : ObsFromStateOp(e, s)

Spec == Init /\ [][Next]_vars

\* Two instances built from the same stochastic tables, driven in any
\* interleaving.  seed(s) is called on instance 1, and the calls that follow
\* it there are repeated by a second run; instance 2 is the other instance of
\* the process, driven through seed(), reset and step.
InitDet == InitFrom(StochasticConfigs, {"fail"})

NextDet ==
    \/ \E s \in SeedArgs : SeedOp(1, s, TRUE)
    \/ \E e \in Envs :
          \/ SeedNoneOp(e, TRUE)
          \/ ResetOp(e, TRUE)
          \/ \E a \in 0 .. 1 : StepOp(e, a, TRUE)

SpecDet == InitDet /\ [][NextDet]_vars

\* One instance driven through every method, built from any constructor
\* arguments, well-formed or not, under either sampling policy.
InitAny == InitFrom(1 .. Len(AllConfigs), {"fail", "renormalize"})

SpecAny == InitAny /\ [][Next]_vars

(* ------------------------------ properties ---------------------------- *)

n_actions == transition_matrix.shape[2]

\* C1: on an instance on which reset has never been called, every step call
\* (whatever the action, whatever seed calls came before) raises ValueError
\* 'Need to call reset() before first step()', and cur_state and
\* n_actions_taken are still None.
StepBeforeResetFails ==
    \A e \in Envs :
        ~ever_reset[e] =>
            /\ cur_state[e] = None
            /\ n_actions_taken[e] = None
            /\ (call.env = e /\ call.op = "step") => ret = Raise("ValueError", NeedResetMsg)

\* a never-reset instance was seeded explicitly and then stepped
StepBeforeResetFailsWitness ==
    /\ call.op = "step"
    /\ ~ever_reset[call.env]
    /\ rand_state[call.env].seed \in SeedArgs
    /\ ret.kind = "raise"

\* C2: n_actions_taken is the number of successful step calls since the most
\* recent reset: each successful step adds exactly 1, each reset (also one
\* in the middle of an episode or after done) sets it to 0.
CounterCountsStepsSinceReset ==
    \A e \in Envs :
        ever_reset[e] => n_actions_taken[e] = Some(episode_steps[e])

\* a step in an episode that was started by a reset after earlier episodes:
\* the generator has served MaxDraws resets and steps, only two of them in
\* the current episode
CounterCountsStepsSinceResetWitness ==
    \E e \in Envs :
        /\ call = [env |-> e, op |-> "step", args |-> <<0>>]
        /\ ret.kind = "return"
        /\ n_actions_taken[e] = Some(1)
        /\ rand_state[e].pos = MaxDraws

\* the last call was a successful step
Stepped == call.op = "step" /\ ret.kind = "return"

\* C3: with a finite horizon H >= 1 the 1st to (H-1)-th step calls of an
\* episode return done = FALSE and the H-th step call returns done = TRUE.
HorizonCapsEpisodeAtH ==
    (Stepped /\ horizon.finite /\ horizon.val >= 1) =>
        LET k == episode_steps[call.env]
        IN  /\ k < horizon.val => ~ret.done
            /\ k = horizon.val => ret.done

\* the tables are those of the 2-state, 2-action scenario
IsScenario ==
    /\ transition_matrix = Scenario.transition_matrix
    /\ reward_matrix.shape = Scenario.reward_matrix.shape
    /\ reward_matrix.data = Scenario.reward_matrix.data
    /\ horizon = Scenario.horizon
    /\ initial_state_dist = Val(Scenario.initial_state_dist)

\* the calls reset(), step(1), step(0) made one after the other on one
\* instance of the scenario: reset observes 0, step(1) reaches state 1 with
\* reward r1, step(0) stays in state 1 with reward 1.0
ScenarioRun(r1) ==
    IsScenario =>
        /\ call'.op = "reset" => ret'.obs = 0
        /\ (/\ call.op = "reset"
            /\ call' = [env |-> call.env, op |-> "step", args |-> <<1>>])
           => (ret'.kind = "return" /\ ret'.obs = 1 /\ ret'.rew = r1)
        /\ (/\ call = [env |-> call.env, op |-> "step", args |-> <<1>>]
            /\ ret.kind = "return"
            /\ episode_steps[call.env] = 1
            /\ call' = [env |-> call.env, op |-> "step", args |-> <<0>>])
           => (ret'.kind = "return" /\ ret'.obs = 1 /\ ret'.rew = 1)

\* C4 as stated: in the scenario, reset() observes 0, step(1) returns state 1
\* with reward 1.0 and step(0) returns state 1 with reward 1.0.
ScenarioAsStated == [][ScenarioRun(1)]_vars

\* C4 as amended: in the scenario, reset() observes 0, step(1) returns state 1
\* with reward 0.0 (the rank-1 reward of the state the step started from) and
\* step(0) returns state 1 with reward 1.0.
ScenarioAsCoded == [][ScenarioRun(0)]_vars

\* the scenario after reset(), step(1), step(0): the second step started in
\* state 1 and stayed there
ScenarioWitness ==
    /\ IsScenario
    /\ call.op = "step" /\ call.args = <<0>>
    /\ ret.kind = "return"
    /\ episode_steps[call.env] = 2
    /\ ret.info = [old_state |-> 1, new_state |-> 1]
    /\ ret.rew = 1

\* C5: the done flag of a successful step is the termination test on the
\* counter as it was before the step's increment: the k-th step call of an
\* episode returns done = TRUE iff k - 1 >= horizon.
DoneTestsCounterBeforeIncrement ==
    Stepped =>
        LET k == episode_steps[call.env]
        IN  ret.done <=> (horizon.finite /\ k - 1 >= horizon.val)

\* the (H+1)-th step of an episode with horizon H >= 1 returned done = TRUE
DoneTestsCounterBeforeIncrementWitness ==
    /\ Stepped
    /\ horizon.finite /\ horizon.val >= 1
    /\ episode_steps[call.env] = horizon.val + 1
    /\ ret.done

\* C6: terminal(state, n) is TRUE iff n >= horizon, whatever the state: for
\* a finite horizon H FALSE for n < H and TRUE for n >= H, for the infinite
\* horizon always FALSE.
TerminalIffHorizonReached ==
    (call.op = "terminal" /\ ret.kind = "return") =>
        LET n == call.args[2]
        IN  IF horizon.finite
            THEN /\ n < horizon.val => ~ret.done
                 /\ n >= horizon.val => ret.done
            ELSE ~ret.done

\* terminal was called with n equal to a finite horizon H >= 1
TerminalIffHorizonReachedWitness ==
    /\ call.op = "terminal"
    /\ horizon.finite /\ horizon.val >= 1
    /\ call.args[2] = horizon.val
    /\ call.args[1] = 1
    /\ ret.done

\* reward_matrix[s, a, s2] truncated to the rank of the matrix, read from
\* the nested data (in-range, non-negative indices)
Entry(s, a, s2) ==
    LET rank == Len(reward_matrix.shape)
        d == reward_matrix.data
    IN  IF rank = 1 THEN d[s + 1]
        ELSE IF rank = 2 THEN d[s + 1][a + 1]
        ELSE d[s + 1][a + 1][s2 + 1]

\* the in-range index that numpy reads for the index i of an axis of length d
Wrapped(i, d) == IF i < 0 THEN i + d ELSE i

\* C7: a successful step returns info.old_state = cur_state before the call,
\* info.new_state = cur_state after it, the observation obs_from_state(new
\* state) = new state, and the reward reward(old_state, action, new_state);
\* so old_state is the new_state of the previous step of the instance, or
\* the state chosen by the reset when the step is the first of its episode.
StepReportsTransition ==
    [][ (call'.op = "step" /\ ret'.kind = "return") =>
          LET e == call'.env
              a == Wrapped(call'.args[1], n_actions)
          IN  /\ ret'.info.old_state = Val(cur_state[e])
              /\ ret'.info.new_state = Val(cur_state'[e])
              /\ ret'.obs = Val(cur_state'[e])
              /\ ret'.rew = Entry(ret'.info.old_state, a, ret'.info.new_state)
              /\ (call.env = e /\ call.op = "step" /\ ret.kind = "return")
                    => ret'.info.old_state = ret.info.new_state
              /\ (call.env = e /\ call.op = "reset")
                    => ret'.info.old_state = ret.obs ]_vars

\* a second or later step of an episode that changed the state
StepReportsTransitionWitness ==
    /\ Stepped
    /\ episode_steps[call.env] >= 2
    /\ ret.info.old_state # ret.info.new_state
    /\ ret.obs = ret.info.new_state

\* C8: reward indexes reward_matrix with (state, action, new_state)
\* truncated to the rank of the matrix: reward_matrix[s] for rank 1,
\* reward_matrix[s, a] for rank 2, reward_matrix[s, a, s2] for rank 3.
RewardTruncatesToRank ==
    (call.op = "reward" /\ ret.kind = "return") =>
        ret.rew = Entry(call.args[1], call.args[2], call.args[3])

\* reward was called on a rank-2 matrix with an action and a new state that differ
RewardTruncatesToRankWitness ==
    /\ call.op = "reward"
    /\ Len(reward_matrix.shape) = 2
    /\ call.args = <<1, 1, 0>>
    /\ ret.rew = 21

\* C9: after seed(s), reset() and the step calls of a fixed action sequence
\* return the same observations, rewards and done flags on every run,
\* whatever was called before seed(s) on this or another instance: the
\* second run, made on a fresh instance of another process, has agreed with
\* the instance on every call since seed(s).
SeededRunsAgree ==
    \A e \in Envs :
        (twin[e].active /\ twin[e].started) => twin[e].same

\* an instance that was reset and reseeded by seed() and then by seed(s)
\* has run reset() and RunSteps steps, while the other instance was reset too
SeededRunsAgreeWitness ==
    \E e \in Envs :
        /\ twin[e].active /\ twin[e].started /\ twin[e].same
        /\ episode_steps[e] = RunSteps
        /\ rand_state[e].pos = RunDraws
        /\ np_random.pos > Cardinality(Envs)
        /\ \A o \in Envs : ever_reset[o]
        /\ Stepped

\* C10: on a reset instance, step with an action a < 0 or a >= n_actions
\* raises an out-of-bounds IndexError.
OutOfRangeActionRaises ==
    (/\ call.op = "step"
     /\ ever_reset[call.env]
     /\ (call.args[1] < 0 \/ call.args[1] >= n_actions))
        => (ret.kind = "raise" /\ ret.exc = "IndexError")

\* C11: instances share no mutable state: a call on one instance leaves
\* unchanged everything a call on another instance reads, that is the other
\* instance's attributes and the generator its seed() draws from.
InstancesShareNoState ==
    [][ \A e \in Envs :
          call'.env = e =>
            /\ \A o \in Envs \ {e} :
                  /\ cur_state'[o] = cur_state[o]
                  /\ n_actions_taken'[o] = n_actions_taken[o]
                  /\ rand_state'[o] = rand_state[o]
            /\ np_random' = np_random ]_vars

\* C12: every instance the constructor builds has an initial_state_dist
\* with non-negative entries summing to 1 and, for every state s and action
\* a, a row transition_matrix[s, a, :] with non-negative entries summing to 1.
ConstructedDistributionsValid ==
    /\ IsDistribution(initial_state_dist)
    /\ \A s \in 1 .. transition_matrix.shape[1], a \in 1 .. transition_matrix.shape[2] :
          IsDistribution(transition_matrix.data[s][a])

\* C13: a reward matrix of rank greater than 3 is rejected: on an instance
\* built with one, the reward computation of a step, or a call of reward,
\* raises instead of returning a reward.
RankAboveThreeRejected ==
    (/\ Len(reward_matrix.shape) > 3
     /\ \/ call.op = "step" /\ ever_reset[call.env]
        \/ call.op = "reward")
        => ret.kind = "raise"

\* C14: an instance constructed without initial_state_dist always starts in
\* state 0: every reset, after whatever seed, reset and step calls, sets
\* cur_state to 0 and returns the observation 0.
DefaultInitialStateIsZero ==
    (~dist_given /\ call.op = "reset") =>
        /\ ret.kind = "return"
        /\ ret.obs = 0
        /\ cur_state[call.env] = Some(0)

\* an instance constructed without initial_state_dist was reseeded, reset
\* and stepped, and has just been reset again
DefaultInitialStateIsZeroWitness ==
    /\ ~dist_given
    /\ call.op = "reset"
    /\ rand_state[call.env].seed \in SeedArgs
    /\ rand_state[call.env].pos >= 3
    /\ cur_state[call.env] = Some(0)

\* C15: seed(s) initializes the owned generator from s and returns [s];
\* seed() draws a seed in [0, 2^31), initializes the owned generator from
\* it and returns the drawn seed as a one-element list.
SeedInitializesAndReturnsSeed ==
    call.op = "seed" =>
        /\ ret.kind = "return"
        /\ Len(ret.seeds) = 1
        /\ rand_state[call.env] = RandomState(ret.seeds[1])
        /\ call.args # <<>> => ret.seeds = call.args
        /\ call.args = <<>> => (ret.seeds[1] >= 0 /\ ret.seeds[1] <= RandintMax)

\* seed() without an argument was called in the middle of an episode
SeedInitializesAndReturnsSeedWitness ==
    /\ call.op = "seed"
    /\ call.args = <<>>
    /\ episode_steps[call.env] >= 1
    /\ ret.seeds[1] \notin SeedArgs

n_states == transition_matrix.shape[1]

\* C16: with well-formed tables every reset selects a state s0 in
\* [0, n_states) with initial_state_dist[s0] > 0, and every successful step
\* from state s with action a selects a state s2 in [0, n_states) with
\* transition_matrix[s, a, s2] > 0.
SampledStatesInSupport ==
    [][ LET e == call'.env
        IN  /\ (call'.op = "reset" /\ ret'.kind = "return") =>
                  LET s0 == Val(cur_state'[e])
                  IN  /\ s0 \in 0 .. n_states - 1
                      /\ initial_state_dist[s0 + 1] > 0
            /\ (call'.op = "step" /\ ret'.kind = "return") =>
                  LET s == Val(cur_state[e])
                      a == Wrapped(call'.args[1], n_actions)
                      s2 == Val(cur_state'[e])
                  IN  /\ s2 \in 0 .. n_states - 1
                      /\ transition_matrix.data[s + 1][a + 1][s2 + 1] > 0 ]_vars

\* a step sampled from a row that gives both states a positive probability
\* and moved from state 0 to state 1
SampledStatesInSupportWitness ==
    /\ Stepped
    /\ transition_matrix = T_sto
    /\ call.args = <<0>>
    /\ ret.info = [old_state |-> 0, new_state |-> 1]

\* C17: cur_state and n_actions_taken are both None until the first reset
\* has returned and both non-None in every state after it, whatever seed,
\* reset and step calls, returning or raising, are made.
LifecycleBothOrNeither ==
    \A e \in Envs :
        IF ever_reset[e]
        THEN cur_state[e] # None /\ n_actions_taken[e] # None
        ELSE cur_state[e] = None /\ n_actions_taken[e] = None

\* a step that raised after the first reset, in an episode that has already
\* taken a step
LifecycleBothOrNeitherWitness ==
    /\ call.op = "step"
    /\ ret.kind = "raise"
    /\ ever_reset[call.env]
    /\ episode_steps[call.env] >= 1

\* C18: a step call that raises leaves cur_state and n_actions_taken as
\* they were before the call, for any tables the constructor accepts.
FailedStepHasNoEffect ==
    [][ (call'.op = "step" /\ ret'.kind = "raise") =>
            /\ cur_state' = cur_state
            /\ n_actions_taken' = n_actions_taken ]_vars

====
